---- MODULE Spec2Model ----
(***************************************************************************)
(* Model of the vessel mission planner: the adjacency-matrix builder and   *)
(* the mission feasibility search of src/mission_planner.py, the greedy    *)
(* constructor, the MST bound and the branch-and-bound solver of           *)
(* src/tsp_solver.py, and the vessel objects of src/vessel_sim_engine.py.  *)
(*                                                                         *)
(* Conventions.                                                            *)
(*  - Python lists are TLA+ sequences; Python index i is position i + 1.   *)
(*    At(l, i) reads Python's l[i].                                        *)
(*  - A waypoint is a latitude on one meridian (whole degrees); the        *)
(*    geodesic collaborator geod.Inverse(..)['s12'] / 1852 is modelled by  *)
(*    the absolute difference of the two latitudes, which is a metric as   *)
(*    the geodesic distance is.                                            *)
(*  - Fuel is counted in units of 0.05 kN, so that calc_fuel_burned's      *)
(*    0.05 * speed**3 * time is the integer speed^3 * time; fuel_weight is *)
(*    counted in the same unit.                                            *)
(*  - Speeds are -1, 0 and 1, for which Python's true division             *)
(*    distance / speed is exact on integers.                               *)
(*  - A list object that two fields reference is kept once, in the         *)
(*    solver's "heap" field, and the fields hold its reference.            *)
(***************************************************************************)
EXTENDS Integers, Sequences, FiniteSets, TLC

VARIABLES
    pc,                 \* position of the calling program
    vessel,             \* the vesselFuel object's fields, or None
    destinations,       \* the list object vessel.mission.destinations
    adj_mat,            \* missionPlanner.adj_mat, or the solver's input matrix
    solver,             \* the tsp_solver object built last, or None
    possible_missions,  \* plan_mission's local list of (l, priority) pairs
    tried,              \* how many entries of possible_missions were solved
    arg,                \* list argument of the method called directly, or None
    ret,                \* value returned (or exception raised) by the last call
    first,              \* what the caller kept of an earlier plan_mission call
    stack               \* the frames of the genPerms calls in progress

vars == <<pc, vessel, destinations, adj_mat, solver, possible_missions, tried, arg, ret,
          first, stack>>

None == "None"

\* float('inf'): larger than every sum of fuel the bounded inputs can give
maxsize == 999999

\* promising prunes only when at least this many nodes are unassigned
PruneMin == 5

-----------------------------------------------------------------------------
(* Bounds of the model *)

MaxDest == 3    \* planner: most destinations in the mission given to the vessel
MaxLat  == 2    \* waypoint latitudes are 0..MaxLat
MaxPrio == 1    \* priorities are 0..MaxPrio
MaxFuel == 4    \* fuel budgets are 0..MaxFuel
MaxW    == 2    \* solver: edge fuel of a freely chosen matrix is 0..MaxW
GenN    == 3    \* solver: most destinations of a freely chosen matrix
LineN   == 6    \* solver: most destinations of a matrix built from waypoints
MaxCoords == 4  \* solver: most nodes in a list given to calc_MST directly

-----------------------------------------------------------------------------
(* Python list helpers *)

At(l, i) == l[i + 1]

Range(l) == {l[k] : k \in 1..Len(l)}

\* l[i:]
SliceFrom(l, i) == SubSeq(l, i + 1, Len(l))

\* ListInsert that ignores the position: x goes to the front
ListInsertFront(l, i, x) == <<x>> \o l

\* l.insert(i, x) for 0 <= i <= len(l)
ListInsert(l, i, x) == SubSeq(l, 1, i) \o <<x>> \o SubSeq(l, i + 1, Len(l))

\* l[i], l[j] = l[j], l[i] through a temporary
ListSwap(l, i, j) == [l EXCEPT ![i + 1] = l[j + 1], ![j + 1] = l[i + 1]]

Abs(x) == IF x < 0 THEN -x ELSE x

-----------------------------------------------------------------------------
(* src/tsp_solver.py *)

\* adj_mat[i][j].fuel_burned
Fuel(adj, i, j) == adj[i][j].fuel_burned

\* sum of the consecutive edges of positions 0..last of path (the loops of
\* calc_TSP_fast, genPerms and promising over range(0, last))
RECURSIVE EdgeSum(_, _, _)
EdgeSum(adj, path, last) ==
    IF last <= 0 THEN 0
    ELSE EdgeSum(adj, path, last - 1) + Fuel(adj, At(path, last - 1), At(path, last))

\* total_fuel of a complete path: its edges plus the edge from its last
\* element to the end node num_coords
PathFuel(adj, path, num_coords) ==
    EdgeSum(adj, path, Len(path) - 1) + Fuel(adj, At(path, Len(path) - 1), num_coords)

\* fuel2 + fuel1 - fuel3 of inserting v after position i of edges
InsertFuel(adj, edges, v, i) ==
    LET fuel1 == Fuel(adj, v, At(edges, i))
        nxt   == IF i # Len(edges) - 1 THEN At(edges, i + 1) ELSE At(edges, 0)
        fuel2 == Fuel(adj, v, nxt)
        fuel3 == Fuel(adj, At(edges, i), nxt)
    IN  fuel2 + fuel1 - fuel3

\* the inner loop of calc_TSP_fast: best_insert after scanning positions i..
RECURSIVE ScanInsert(_, _, _, _, _, _)
ScanInsert(adj, edges, v, i, best_insert, min_fuel) ==
    IF i >= Len(edges) THEN best_insert
    ELSE IF InsertFuel(adj, edges, v, i) < min_fuel
         THEN ScanInsert(adj, edges, v, i + 1, i, InsertFuel(adj, edges, v, i))
         ELSE ScanInsert(adj, edges, v, i + 1, best_insert, min_fuel)

\* the outer loop of calc_TSP_fast, from node v on
RECURSIVE InsertFrom(_, _, _, _)
InsertFrom(adj, num_coords, edges, v) ==
    IF v >= num_coords THEN edges
    ELSE InsertFrom(adj, num_coords,
                    ListInsert(edges, ScanInsert(adj, edges, v, 0, 0, maxsize) + 1, v),
                    v + 1)

\* calc_TSP_fast: (edges, total_fuel)
calc_TSP_fast(adj, num_coords) ==
    LET edges == InsertFrom(adj, num_coords, <<0>>, 1)
    IN  <<edges, PathFuel(adj, edges, num_coords)>>

\* make_mst_coords: one mst_coord per index, the first with dw = 0
make_mst_coords(coords) ==
    [k \in 1..Len(coords) |->
        [index |-> coords[k], kv |-> FALSE,
         dw |-> IF k = 1 THEN 0 ELSE maxsize, pw |-> None]]

\* first loop of an iteration of calc_MST: the first j not in the tree whose
\* dw is least and below maxsize; curr_v is kept when there is none
SelectMin(mst_coords, curr_v) ==
    LET cand == {j \in 0..Len(mst_coords) - 1 :
                    ~At(mst_coords, j).kv /\ At(mst_coords, j).dw < maxsize}
    IN  IF cand = {} THEN curr_v
        ELSE CHOOSE j \in cand :
                \A k \in cand : \/ At(mst_coords, j).dw < At(mst_coords, k).dw
                                \/ /\ At(mst_coords, j).dw = At(mst_coords, k).dw
                                   /\ j <= k

\* Relax without the test "dist < dw": every node outside the tree takes the
\* distance to the node added last
RelaxAlways(adj, mst_coords, curr_v) ==
    [k \in 1..Len(mst_coords) |->
        LET c    == mst_coords[k]
            dist == Fuel(adj, At(mst_coords, curr_v).index, c.index)
        IN  IF ~c.kv
            THEN [c EXCEPT !.dw = dist, !.pw = curr_v]
            ELSE c]

\* second loop of an iteration of calc_MST: relax dw of the nodes outside
\* the tree against the node curr_v just added
Relax(adj, mst_coords, curr_v) ==
    [k \in 1..Len(mst_coords) |->
        LET c    == mst_coords[k]
            dist == Fuel(adj, At(mst_coords, curr_v).index, c.index)
        IN  IF ~c.kv /\ dist < c.dw
            THEN [c EXCEPT !.dw = dist, !.pw = curr_v]
            ELSE c]

\* the iterations todo..1 of "for c in mst_coords"
RECURSIVE MstLoop(_, _, _)
MstLoop(adj, st, todo) ==
    IF todo = 0 THEN st
    ELSE LET curr_v == SelectMin(st.mst_coords, st.curr_v)
             marked == [st.mst_coords EXCEPT ![curr_v + 1].kv = TRUE]
         IN  MstLoop(adj,
                     [mst_coords |-> Relax(adj, marked, curr_v),
                      curr_v     |-> curr_v,
                      total_fuel |-> st.total_fuel + At(st.mst_coords, curr_v).dw],
                     todo - 1)

\* calc_MST(coords): total_fuel of the tree grown over coords
calc_MST(adj, coords) ==
    MstLoop(adj,
            [mst_coords |-> make_mst_coords(coords), curr_v |-> 0, total_fuel |-> 0],
            Len(coords)).total_fuel

\* least Fuel(adj, from, u) over the nodes u of a non-empty list
MinFuelTo(adj, from, unvisited) ==
    CHOOSE f \in {Fuel(adj, from, u) : u \in Range(unvisited)} :
        \A u \in Range(unvisited) : f <= Fuel(adj, from, u)

\* totalEst of promising
totalEst(adj, num_coords, path, permLength) ==
    LET curr_unvisited  == SliceFrom(path, permLength)
        curr_fuel       == EdgeSum(adj, path, permLength - 1)
        mst_length      == calc_MST(adj, curr_unvisited)
        arm1_len        == MinFuelTo(adj, At(path, 0), curr_unvisited)
        arm2_len        == MinFuelTo(adj, At(path, permLength - 1), curr_unvisited)
        min_dist_to_end == MinFuelTo(adj, num_coords, curr_unvisited)
    IN  curr_fuel + mst_length + arm2_len + arm1_len + min_dist_to_end

\* promising(path, permLength) on solver object s
promising(s, path, permLength) ==
    IF Len(SliceFrom(path, permLength)) < PruneMin THEN TRUE
    ELSE totalEst(s.adj_mat, s.num_coords, path, permLength) < s.best_path_length

\* tsp_solver.__init__: fast_sol's list is the one list object "edges";
\* best_path and curr_path both reference it
tsp_solver(dest_list, adj) ==
    LET fast_sol == calc_TSP_fast(adj, Len(dest_list))
    IN  [adj_mat          |-> adj,
         num_coords       |-> Len(dest_list),
         heap             |-> [edges |-> fast_sol[1]],
         fast_sol         |-> <<"edges", fast_sol[2]>>,
         best_path        |-> "edges",
         best_path_length |-> fast_sol[2],
         curr_path        |-> "edges"]

\* the list a reference of solver object s denotes
Deref(s, ref) == s.heap[ref]

\* UpdateBest with the comparison turned round
UpdateBestWorse(s) ==
    LET total_fuel == PathFuel(s.adj_mat, Deref(s, s.curr_path), s.num_coords)
    IN  IF s.best_path_length < total_fuel
        THEN [s EXCEPT !.best_path = s.curr_path, !.best_path_length = total_fuel]
        ELSE s

\* the terminal case of genPerms: best_path is set to the reference curr_path
UpdateBest(s) ==
    LET total_fuel == PathFuel(s.adj_mat, Deref(s, s.curr_path), s.num_coords)
    IN  IF s.best_path_length > total_fuel
        THEN [s EXCEPT !.best_path = s.curr_path, !.best_path_length = total_fuel]
        ELSE s

\* the two-element swap of positions permLength and i of curr_path, in place
SwapCurr(s, permLength, i) ==
    [s EXCEPT !.heap[s.curr_path] = ListSwap(Deref(s, s.curr_path), permLength, i)]

\* genPerms(permLength); BranchFrom is its for loop from i on
RECURSIVE genPerms(_, _)
RECURSIVE BranchFrom(_, _, _)
genPerms(s, permLength) ==
    IF permLength = Len(Deref(s, s.curr_path)) THEN UpdateBest(s)
    ELSE IF ~promising(s, Deref(s, s.curr_path), permLength) THEN s
    ELSE BranchFrom(s, permLength, permLength)

BranchFrom(s, permLength, i) ==
    IF i >= Len(Deref(s, s.curr_path)) THEN s
    ELSE BranchFrom(
            SwapCurr(genPerms(SwapCurr(s, permLength, i), permLength + 1), permLength, i),
            permLength, i + 1)

\* calc_TSP_opt
calc_TSP_opt(s) == genPerms(s, 1)

-----------------------------------------------------------------------------
(* src/vessel_sim_engine.py *)

\* Waypoint(lat, long): the longitude is the one meridian of the model
Waypoint(lat) == [lat |-> lat]

\* Destination(waypoint, arrival_time, priority); arrival_time is read by no
\* decision of the planner and is left out
Destination(waypoint, priority) ==
    [waypoint |-> waypoint, priority |-> priority, visited |-> FALSE]

\* the loop of Mission.__init__ summing dest.priority
RECURSIVE SumPriority(_)
SumPriority(dests) ==
    IF dests = <<>> THEN 0
    ELSE dests[1].priority + SumPriority(Tail(dests))

\* Mission(destinations)
Mission(dests) ==
    [destinations |-> dests, current_waypoint_index |-> 0,
     total_priority |-> SumPriority(dests)]

\* vesselFuel.calc_fuel_burned in units of 0.05 kN
calc_fuel_burned(speed, time_interval) == (speed ^ 3) * time_interval

-----------------------------------------------------------------------------
(* src/mission_planner.py *)

\* geod.Inverse(lat1, long1, lat2, long2)['s12'] / 1852
Distance(w1, w2) == Abs(w1.lat - w2.lat)

waypoint_info(distance, time, fuel_burned) ==
    [distance |-> distance, time |-> time, fuel_burned |-> fuel_burned]

\* an exception leaving a call
Raised(name) == [kind |-> "exception", value |-> name]

\* a value returned by a call
Returned(kind, value) == [kind |-> kind, value |-> value]

\* the entry matrix[i][j] of waypoint_list_to_matrix for a speed that is
\* not zero; matrix[n][n] is never assigned
MatrixEntry(dl, end, speed, i, j) ==
    LET n == Len(dl)
    IN  IF i = n /\ j = n THEN None
        ELSE IF i = n \/ j = n
        THEN LET k        == IF i = n THEN j ELSE i
                 distance == Distance(At(dl, k).waypoint, end)
                 time     == distance \div speed
             IN  waypoint_info(distance, time, 0)
        ELSE IF i = j THEN waypoint_info(0, 0, 0)
        ELSE LET lo       == IF i < j THEN i ELSE j
                 hi       == IF i < j THEN j ELSE i
                 distance == Distance(At(dl, lo).waypoint, At(dl, hi).waypoint)
                 time     == distance \div speed
                 fuel     == calc_fuel_burned(speed, time)
             IN  waypoint_info(distance, time, fuel)

\* waypoint_list_to_matrix(destinations, end): distance / speed raises
\* ZeroDivisionError as soon as one edge is computed
waypoint_list_to_matrix(dl, end, speed) ==
    IF Len(dl) > 0 /\ speed = 0 THEN Raised("ZeroDivisionError")
    ELSE Returned("matrix",
                  [i \in 0..Len(dl) |-> [j \in 0..Len(dl) |->
                      MatrixEntry(dl, end, speed, i, j)]])

\* itertools.combinations(range(lo, hi + 1), x), in its lexicographic order
RECURSIVE combinations(_, _, _)
combinations(lo, hi, x) ==
    IF x = 0 THEN << <<>> >>
    ELSE IF hi - lo + 1 < x THEN <<>>
    ELSE LET with == combinations(lo + 1, hi, x - 1)
         IN  [k \in 1..Len(with) |-> <<lo>> \o with[k]]
             \o combinations(lo + 1, hi, x)

\* priority of the index list l: the loop "for i in d"
RECURSIVE PriorityOf(_, _)
PriorityOf(dests, l) ==
    IF l = <<>> THEN 0
    ELSE At(dests, l[1]).priority + PriorityOf(dests, Tail(l))

\* the body of "while(x>0)" for one x: (l, priority) of every combination
MissionsOfSize(dests, x) ==
    LET combs == combinations(1, Len(dests) - 1, x)
    IN  [k \in 1..Len(combs) |->
            <<(<<0>> \o combs[k]), PriorityOf(dests, <<0>> \o combs[k])>>]

\* the while loop from x down to 1
RECURSIVE MissionsFrom(_, _)
MissionsFrom(dests, x) ==
    IF x <= 0 THEN <<>>
    ELSE MissionsOfSize(dests, x) \o MissionsFrom(dests, x - 1)

\* KeepsBefore of a sort that is not stable: equal keys change places
KeepsBeforeStrict(a, b) == a[2] > b[2]

\* TRUE when entry a has to stay before entry b: list.sort(reverse=True) is
\* stable, so b moves ahead of a only with a strictly greater key
KeepsBefore(a, b) == a[2] >= b[2]

\* insert m into the sorted list behind every entry that stays before it
RECURSIVE SortedInsert(_, _)
SortedInsert(sorted, m) ==
    IF sorted = <<>> THEN <<m>>
    ELSE IF KeepsBefore(sorted[1], m)
         THEN <<sorted[1]>> \o SortedInsert(Tail(sorted), m)
         ELSE <<m>> \o sorted

\* SortMissions with the sort left out
NoSort(l) == l

\* possible_missions.sort(key=lambda mission: mission[1], reverse=True)
RECURSIVE SortMissions(_)
SortMissions(l) ==
    IF l = <<>> THEN <<>>
    ELSE SortedInsert(SortMissions(SubSeq(l, 1, Len(l) - 1)), l[Len(l)])

\* adj_mat[np.ix_(new_adj, new_adj)]
SubMatrix(adj, new_adj) ==
    [i \in 0..Len(new_adj) - 1 |-> [j \in 0..Len(new_adj) - 1 |->
        adj[At(new_adj, i)][At(new_adj, j)]]]

\* the Mission built from a solver whose cost fits the budget: dest_list in
\* the order of best_path, then the end destination
MissionOf(s, dest_list, end) ==
    LET best_path == Deref(s, s.best_path)
    IN  Mission([k \in 1..Len(best_path) |-> At(dest_list, best_path[k])]
                \o <<Destination(end, 0)>>)

\* calc_TSP_fast sets dest_list[0].visited on the Destination object, which
\* is destinations[0] in every solve of plan_mission
MarkVisited(dests) == [dests EXCEPT ![1].visited = TRUE]

-----------------------------------------------------------------------------
(* Inputs *)

Lats      == 0..MaxLat
Speeds    == {-1, 0, 1}
Fuels     == 0..MaxFuel
DestSet   == {Destination(Waypoint(lat), p) : lat \in Lats, p \in 0..MaxPrio}

\* the destination lists of the Mission given to the vessel
MissionLists == UNION {[1..k -> DestSet] : k \in 0..MaxDest}

-----------------------------------------------------------------------------
(* The program: a vessel is built around a mission, a planner around the    *)
(* vessel, and plan_mission is called.                                      *)

Init ==
    /\ pc = "new"
    /\ vessel = None
    /\ destinations = <<>>
    /\ adj_mat = None
    /\ solver = None
    /\ possible_missions = <<>>
    /\ tried = 0
    /\ arg = None
    /\ ret = Returned("None", None)
    /\ first = Returned("None", None)
    /\ stack = <<>>

\* vesselFuel(name, start, end, mission, fuel_weight, speed): vesselBase
\* appends the end destination to mission.destinations; an empty list makes
\* destinations[len - 1] raise IndexError
NewVessel(dests, start, end, fuel_weight, speed) ==
    /\ pc = "new"
    /\ IF dests = <<>>
       THEN /\ pc' = "raised"
            /\ ret' = Raised("IndexError")
            /\ UNCHANGED <<vessel, destinations>>
       ELSE /\ pc' = "vessel"
            /\ vessel' = [start |-> start, end |-> end, speed |-> speed,
                          fuel_weight |-> fuel_weight, fuel_burned |-> 0]
            /\ destinations' = Append(dests, Destination(Waypoint(end), 0))
            /\ UNCHANGED ret
    /\ UNCHANGED <<adj_mat, solver, possible_missions, tried, arg, first, stack>>

\* missionPlanner(vessel, start_time, ocean_file): deletes the end waypoint
\* from the mission's list
NewPlanner ==
    /\ pc = "vessel"
    /\ pc' = "planner"
    /\ destinations' = SubSeq(destinations, 1, Len(destinations) - 1)
    /\ UNCHANGED <<vessel, adj_mat, solver, possible_missions, tried, arg, ret, first, stack>>

\* the budget test of plan_mission
Fits(s) == s.best_path_length < vessel.fuel_weight

\* plan_mission up to the end of the full-set test: insert the start, build
\* the matrix, solve the full set; return its Mission when it fits, otherwise
\* build and sort possible_missions
PlanMission ==
    /\ pc = "planner"
    /\ LET start == Waypoint(vessel.start)
           end   == Waypoint(vessel.end)
           dests == <<Destination(start, 0)>> \o destinations
           built == waypoint_list_to_matrix(dests, end, vessel.speed)
       IN  IF built.kind = "exception"
           THEN /\ pc' = "raised"
                /\ ret' = built
                /\ destinations' = dests
                /\ UNCHANGED <<adj_mat, solver, possible_missions>>
           ELSE LET s == calc_TSP_opt(tsp_solver(dests, built.value))
                IN  /\ adj_mat' = built.value
                    /\ solver' = s
                    /\ destinations' = MarkVisited(dests)
                    /\ IF Fits(s)
                       THEN /\ pc' = "returned"
                            /\ ret' = Returned("Mission",
                                         MissionOf(s, MarkVisited(dests), end))
                            /\ UNCHANGED possible_missions
                       ELSE /\ pc' = "fallback"
                            /\ possible_missions' =
                                  SortMissions(MissionsFrom(dests, Len(dests) - 2))
                            /\ UNCHANGED ret
    /\ UNCHANGED <<vessel, tried, arg, first, stack>>

\* dest_list of the index list l of a candidate
DestList(l) == [k \in 1..Len(l) |-> At(destinations, l[k])]

\* the solver of a candidate after calc_TSP_opt, over the sub-matrix of its
\* indexes and the end node
SolveSubset(l) ==
    LET new_adj     == l \o <<Len(destinations)>>
        sub_adj_mat == SubMatrix(adj_mat, new_adj)
    IN  calc_TSP_opt(tsp_solver(DestList(l), sub_adj_mat))

\* one iteration of "for mission in possible_missions": solve the subset and
\* return its Mission when it fits
TryMission ==
    /\ pc = "fallback"
    /\ tried < Len(possible_missions)
    /\ LET mission   == At(possible_missions, tried)
           dest_list == DestList(mission[1])
           s         == SolveSubset(mission[1])
       IN  /\ solver' = s
           /\ tried' = tried + 1
           /\ IF Fits(s)
              THEN /\ pc' = "returned"
                   /\ ret' = Returned("Mission",
                                MissionOf(s, dest_list, Waypoint(vessel.end)))
              ELSE UNCHANGED <<pc, ret>>
    /\ UNCHANGED <<vessel, destinations, adj_mat, possible_missions, arg, first, stack>>

\* the loop ran out: the Mission of the start destination alone
NoMission ==
    /\ pc = "fallback"
    /\ tried = Len(possible_missions)
    /\ pc' = "returned"
    /\ ret' = Returned("Mission",
                 Mission(<<Destination(Waypoint(vessel.start), 0)>>))
    /\ UNCHANGED <<vessel, destinations, adj_mat, solver, possible_missions, tried, arg, first, stack>>

\* a direct call planner.waypoint_list_to_matrix(dl, end)
CallMatrix(dl) ==
    /\ pc = "planner"
    /\ pc' = "matrix_done"
    /\ arg' = dl
    /\ ret' = waypoint_list_to_matrix(dl, Waypoint(vessel.end), vessel.speed)
    /\ UNCHANGED <<vessel, destinations, adj_mat, solver, possible_missions, tried, first, stack>>

Next ==
    \/ /\ pc = "new"
       /\ \E dests \in MissionLists, start \in Lats, end \in Lats,
             fuel_weight \in Fuels, speed \in Speeds :
               NewVessel(dests, start, end, fuel_weight, speed)
    \/ NewPlanner
    \/ PlanMission
    \/ TryMission
    \/ NoMission
    \/ /\ pc = "planner"
       /\ \E dl \in {<<>>, destinations} : CallMatrix(dl)

Spec == Init /\ [][Next]_vars

-----------------------------------------------------------------------------
(* The solver used on its own: a tsp_solver is built over a cost matrix,    *)
(* then calc_TSP_opt or calc_MST is called on it.                           *)

\* symmetric matrices over nodes 0..n with a zero diagonal and any fuel in
\* 0..MaxW elsewhere
Pairs(n) == {p \in (0..n) \X (0..n) : p[1] < p[2]}

SymMatrix(n, w) ==
    [i \in 0..n |-> [j \in 0..n |->
        [fuel_burned |-> IF i = j THEN 0
                         ELSE IF i < j THEN w[<<i, j>>] ELSE w[<<j, i>>]]]]

\* solvers over freely chosen matrices: the destinations are placeholders,
\* as tsp_solver reads dest_list for its length alone
GenInputs ==
    UNION {{<<[k \in 1..n |-> Destination(Waypoint(0), 0)], SymMatrix(n, w)>>
               : w \in [Pairs(n) -> 0..MaxW]} : n \in 1..GenN}

\* solvers over the matrices the planner's builder gives for n destinations
\* on the meridian, at speed 1
LineInputs ==
    UNION {{<<dl, waypoint_list_to_matrix(dl, Waypoint(0), 1).value>>
               : dl \in [1..n -> {Destination(Waypoint(lat), 0) : lat \in Lats}]}
           : n \in (GenN + 1)..LineN}

\* tsp_solver(vessel, dest_list, adj_mat)
NewSolver(dest_list, adj) ==
    /\ pc = "new"
    /\ pc' = "solver"
    /\ adj_mat' = adj
    /\ destinations' = MarkVisited(dest_list)
    /\ solver' = tsp_solver(dest_list, adj)
    /\ UNCHANGED <<vessel, possible_missions, tried, arg, ret, first, stack>>

\* solver.calc_TSP_opt()
CalcTSPOpt ==
    /\ pc = "solver"
    /\ pc' = "solved"
    /\ solver' = calc_TSP_opt(solver)
    /\ UNCHANGED <<vessel, destinations, adj_mat, possible_missions, tried, arg, ret, first, stack>>

\* solver.calc_MST(coords)
CallMST(coords) ==
    /\ pc = "solver"
    /\ pc' = "mst_done"
    /\ arg' = coords
    /\ ret' = Returned("float", calc_MST(solver.adj_mat, coords))
    /\ UNCHANGED <<vessel, destinations, adj_mat, solver, possible_missions, tried, first, stack>>

\* the lists of distinct nodes of 0..n, of 1 to MaxCoords elements; calc_MST is
\* called directly on the solvers over freely chosen matrices

CoordLists(n) ==
    UNION {{c \in [1..k -> 0..n] : \A a, b \in 1..k : a # b => c[a] # c[b]}
           : k \in 1..MaxCoords}

SolverNext ==
    \/ /\ pc = "new"
       /\ \E input \in GenInputs \cup LineInputs : NewSolver(input[1], input[2])
    \/ CalcTSPOpt
    \/ /\ pc = "solver"
       /\ solver.num_coords <= GenN
       /\ \E coords \in CoordLists(solver.num_coords) : CallMST(coords)

SolverSpec == Init /\ [][SolverNext]_vars

-----------------------------------------------------------------------------
(* The planner on missions long enough for promising to prune: WideDest     *)
(* destinations of priority 1, so that the full set is a solve over         *)
(* WideDest + 1 nodes.                                                      *)

WideDest == PruneMin

WideLists == [1..WideDest -> {Destination(Waypoint(lat), 1) : lat \in Lats}]

WideNext ==
    \/ /\ pc = "new"
       /\ \E dests \in WideLists, end \in Lats, fuel_weight \in Fuels :
               NewVessel(dests, 0, end, fuel_weight, 1)
    \/ NewPlanner
    \/ PlanMission
    \/ TryMission
    \/ NoMission

WideSpec == Init /\ [][WideNext]_vars

-----------------------------------------------------------------------------
(* plan_mission called twice on one planner: the caller keeps the Mission   *)
(* of the first call and calls again, with the vessel and the planner       *)
(* untouched in between.                                                    *)

\* the caller keeps the returned Mission and calls planner.plan_mission()
\* once more; possible_missions and its loop position are locals of the call
PlanAgain ==
    /\ pc = "returned"
    /\ first.kind = "None"
    /\ first' = ret
    /\ pc' = "planner"
    /\ possible_missions' = <<>>
    /\ tried' = 0
    /\ UNCHANGED <<vessel, destinations, adj_mat, solver, arg, ret, stack>>

AgainNext ==
    \/ /\ pc = "new"
       /\ \E dests \in MissionLists, start \in Lats, end \in Lats, fuel_weight \in Fuels :
               NewVessel(dests, start, end, fuel_weight, 1)
    \/ NewPlanner
    \/ PlanMission
    \/ TryMission
    \/ NoMission
    \/ PlanAgain

AgainSpec == Init /\ [][AgainNext]_vars

-----------------------------------------------------------------------------
(* calc_TSP_opt step by step: every genPerms call in progress is a frame of *)
(* stack, the innermost call last.  A frame is at "enter" before the tests  *)
(* of the call, at "loop" between two iterations of its for loop, at "back" *)
(* while the recursive call of an iteration runs, and at "return" when the  *)
(* call returns.  A frame also records the list curr_path denoted when the  *)
(* call was entered and whether the call ended on the promising test.       *)

\* the frame of a call genPerms(permLength) on solver object s
Frame(s, permLength) ==
    [permLength |-> permLength, i |-> permLength, at |-> "enter",
     entry |-> Deref(s, s.curr_path), pruned |-> FALSE]

\* the innermost call, and the stack with its frame replaced by f
Top == stack[Len(stack)]

SetTop(f) == [stack EXCEPT ![Len(stack)] = f]

\* SwapBack left out: the swap of an iteration is never undone
SwapBackSkipped(s, permLength, i) == s

\* the second swap of an iteration of genPerms' loop, after the recursive call
SwapBack(s, permLength, i) == SwapCurr(s, permLength, i)

\* calc_TSP_opt calls genPerms(1)
StartSearch ==
    /\ pc = "solver"
    /\ pc' = "search"
    /\ stack' = <<Frame(solver, 1)>>
    /\ UNCHANGED <<vessel, destinations, adj_mat, solver, possible_missions, tried, arg,
                   ret, first>>

\* the head of genPerms: the terminal case updates the best and returns, a
\* prefix that is not promising returns, otherwise the loop starts
Enter ==
    /\ pc = "search"
    /\ Top.at = "enter"
    /\ IF Top.permLength = Len(Deref(solver, solver.curr_path))
       THEN /\ solver' = UpdateBest(solver)
            /\ stack' = SetTop([Top EXCEPT !.at = "return"])
       ELSE IF ~promising(solver, Deref(solver, solver.curr_path), Top.permLength)
       THEN /\ stack' = SetTop([Top EXCEPT !.at = "return", !.pruned = TRUE])
            /\ UNCHANGED solver
       ELSE /\ stack' = SetTop([Top EXCEPT !.at = "loop"])
            /\ UNCHANGED solver
    /\ UNCHANGED <<pc, vessel, destinations, adj_mat, possible_missions, tried, arg, ret,
                   first>>

\* one iteration of the loop up to its recursive call: swap positions
\* permLength and i and call genPerms(permLength + 1); the call returns when
\* the range is used up
Branch ==
    /\ pc = "search"
    /\ Top.at = "loop"
    /\ IF Top.i >= Len(Deref(solver, solver.curr_path))
       THEN /\ stack' = SetTop([Top EXCEPT !.at = "return"])
            /\ UNCHANGED solver
       ELSE LET swapped == SwapCurr(solver, Top.permLength, Top.i)
            IN  /\ solver' = swapped
                /\ stack' = Append(SetTop([Top EXCEPT !.at = "back"]),
                                   Frame(swapped, Top.permLength + 1))
    /\ UNCHANGED <<pc, vessel, destinations, adj_mat, possible_missions, tried, arg, ret,
                   first>>

\* the innermost call returns: calc_TSP_opt is over when it was genPerms(1),
\* otherwise the caller swaps back and goes on to its next iteration
Return ==
    /\ pc = "search"
    /\ Top.at = "return"
    /\ IF Len(stack) = 1
       THEN /\ pc' = "solved"
            /\ stack' = <<>>
            /\ UNCHANGED solver
       ELSE LET caller == stack[Len(stack) - 1]
            IN  /\ solver' = SwapBack(solver, caller.permLength, caller.i)
                /\ stack' = [SubSeq(stack, 1, Len(stack) - 1) EXCEPT
                                ![Len(stack) - 1] =
                                    [caller EXCEPT !.i = caller.i + 1, !.at = "loop"]]
                /\ UNCHANGED pc
    /\ UNCHANGED <<vessel, destinations, adj_mat, possible_missions, tried, arg, ret, first>>

SearchNext ==
    \/ /\ pc = "new"
       /\ \E input \in GenInputs \cup LineInputs : NewSolver(input[1], input[2])
    \/ StartSearch
    \/ Enter
    \/ Branch
    \/ Return

SearchSpec == Init /\ [][SearchNext]_vars

-----------------------------------------------------------------------------
(* Reference definitions for the properties *)

\* the orderings of the finite set S
Orderings(S) ==
    {p \in [1..Cardinality(S) -> S] : \A a, b \in 1..Cardinality(S) : a # b => p[a] # p[b]}

\* least element of a non-empty set of integers
Least(S) == CHOOSE x \in S : \A y \in S : x <= y

\* fuel of walking the nodes of p in order: the sum of its consecutive edges
RECURSIVE HamFuel(_, _)
HamFuel(adj, p) ==
    IF Len(p) <= 1 THEN 0
    ELSE adj[p[1]][p[2]].fuel_burned + HamFuel(adj, Tail(p))

\* fuel of the route p followed by the edge from its last node to the end node
RouteFuel(adj, p, endnode) == HamFuel(adj, p) + adj[p[Len(p)]][endnode].fuel_burned

\* least route fuel over the orderings of S behind the start index 0
MinRoute(adj, S, endnode) ==
    Least({RouteFuel(adj, <<0>> \o p, endnode) : p \in Orderings(S)})

\* a plan_mission call has returned a Mission to a vessel of positive speed
Planned == pc = "returned" /\ ret.kind = "Mission" /\ vessel.speed > 0

\* the Mission holds more than the start destination
NonDegenerate == Len(ret.value.destinations) > 1

\* index in mission.destinations of a Destination of the returned Mission
IndexOf(d) == CHOOSE i \in 0..Len(destinations) - 1 : At(destinations, i) = d

\* the returned visiting order as indexes of the adjacency matrix, without
\* the end destination appended last
ReturnedRoute ==
    [k \in 1..Len(ret.value.destinations) - 1 |-> IndexOf(ret.value.destinations[k])]

\* size and total priority of entry k of possible_missions
SizeAt(k) == Len(possible_missions[k][1])
PrioAt(k) == possible_missions[k][2]

-----------------------------------------------------------------------------
(* Properties *)

\* C1: a non-degenerate Mission returned by plan_mission has, in the returned
\* visiting order, a fuel cost read from the adjacency matrix (consecutive
\* edges plus the last-destination-to-end edge) within the fuel budget.
C1_RouteWithinBudget ==
    (Planned /\ NonDegenerate)
        => RouteFuel(adj_mat, ReturnedRoute, Len(destinations)) <= vessel.fuel_weight

\* C2: after calc_TSP_opt, the fuel of best_path (consecutive edges plus the
\* edge from its last element to the end node) equals best_path_length.
C2_BestPathHasBestLength ==
    pc = "solved"
        => RouteFuel(adj_mat, Deref(solver, solver.best_path), solver.num_coords)
              = solver.best_path_length

\* C3: after calc_TSP_opt, best_path_length is the least route fuel over all
\* orderings of the destinations that begin with index 0, for every
\* destination count, those where pruning is active included.
C3_BestLengthIsMinimum ==
    pc = "solved"
        => solver.best_path_length
              = MinRoute(adj_mat, 1..solver.num_coords - 1, solver.num_coords)

\* C4 as stated: in the fallback search every candidate of a larger size is
\* solved before any candidate of a smaller size, and the returned Mission
\* has the largest size at which some candidate fits the budget.
C4_LargerSizeFirst ==
    /\ \A i, j \in 1..tried : i < j => SizeAt(i) >= SizeAt(j)
    /\ (Planned /\ NonDegenerate /\ tried > 0)
          => \A k \in 1..Len(possible_missions) :
                Fits(SolveSubset(possible_missions[k][1])) => SizeAt(k) <= SizeAt(tried)

\* C4 as amended: the candidates are solved in order of non-increasing total
\* priority, and among candidates of equal total priority every larger one
\* is solved before any smaller one; the returned Mission is of the highest
\* total priority for which some candidate fits the budget, and of the
\* largest size among the fitting candidates of that priority.
C4_PriorityThenSize ==
    /\ \A i, j \in 1..tried :
          i < j => \/ PrioAt(i) > PrioAt(j)
                   \/ PrioAt(i) = PrioAt(j) /\ SizeAt(i) >= SizeAt(j)
    /\ (Planned /\ NonDegenerate /\ tried > 0)
          => \A k \in 1..Len(possible_missions) :
                Fits(SolveSubset(possible_missions[k][1]))
                    => \/ PrioAt(k) < PrioAt(tried)
                       \/ PrioAt(k) = PrioAt(tried) /\ SizeAt(k) <= SizeAt(tried)

\* a smaller candidate was solved before a larger one, and a Mission returned
C4_Witness ==
    /\ Planned /\ NonDegenerate
    /\ \E i, j \in 1..tried : i < j /\ SizeAt(i) < SizeAt(j)

\* C5: of two candidates of equal size, the one of strictly higher total
\* priority is solved and tested first: no candidate is solved while one of
\* its size and of higher priority is still waiting.
C5_EqualSizeByPriority ==
    \A j \in 1..tried : \A i \in 1..Len(possible_missions) :
        (SizeAt(i) = SizeAt(j) /\ PrioAt(i) > PrioAt(j)) => i < j

\* two candidates of one size and different priorities were both solved
C5_Witness ==
    \E i, j \in 1..tried : i < j /\ SizeAt(i) = SizeAt(j) /\ PrioAt(i) > PrioAt(j)

\* C6: the returned Mission's total priority is at least that of every
\* subset of the destinations, start included, whose least route fuel is
\* below the budget.
C6_HighestPriorityFeasible ==
    Planned
        => \A S \in SUBSET (1..Len(destinations) - 1) :
              MinRoute(adj_mat, S, Len(destinations)) < vessel.fuel_weight
                  => ret.value.total_priority
                        >= PriorityOf(destinations, <<0>>)
                           + Least({PriorityOf(destinations, p) : p \in Orderings(S)})

\* C7: after calc_TSP_opt, best_path_length is at most the cost calc_TSP_fast
\* computes on the same matrix.
C7_OptAtMostGreedy ==
    pc = "solved"
        => solver.best_path_length <= calc_TSP_fast(adj_mat, solver.num_coords)[2]

\* the search improved on the greedy cost, on a matrix where pruning applies
C7_Witness ==
    /\ pc = "solved"
    /\ solver.num_coords > PruneMin
    /\ solver.best_path_length < calc_TSP_fast(adj_mat, solver.num_coords)[2]

\* C8: calc_MST over a non-empty list of distinct nodes returns at most the
\* fuel of every Hamiltonian path over those nodes.
C8_MstBelowEveryPath ==
    pc = "mst_done"
        => \A p \in Orderings(Range(arg)) : ret.value <= HamFuel(adj_mat, p)

\* a tree over MaxCoords nodes that is cheaper than every path over them
C8_Witness ==
    /\ pc = "mst_done"
    /\ Len(arg) = MaxCoords
    /\ ret.value > 0
    /\ \A p \in Orderings(Range(arg)) : ret.value < HamFuel(adj_mat, p)

\* C9: with a fuel budget below the cost-model fuel of the start-to-end edge,
\* plan_mission returns the Mission of the start destination alone, of
\* total priority 0.
C9_BelowStartEndIsDegenerate ==
    (/\ Planned
     /\ vessel.fuel_weight
           < calc_fuel_burned(vessel.speed,
                Distance(Waypoint(vessel.start), Waypoint(vessel.end)) \div vessel.speed))
        => /\ ret.value.destinations = <<Destination(Waypoint(vessel.start), 0)>>
           /\ ret.value.total_priority = 0

\* C10: waypoint_list_to_matrix called with an empty destination list ends in
\* an error outcome.
C10_EmptyListFails ==
    (pc = "matrix_done" /\ vessel.speed > 0 /\ arg = <<>>) => ret.kind = "exception"

\* C11: with a vessel speed of zero or below, building the adjacency matrix
\* ends in an error: plan_mission never gets as far as handing a matrix to
\* the solver, and a direct call on a non-empty list raises.
C11_NonPositiveSpeedRejected ==
    /\ pc \in {"fallback", "returned"} => vessel.speed > 0
    /\ (pc = "matrix_done" /\ arg # <<>> /\ vessel.speed <= 0) => ret.kind = "exception"

\* C13: every off-diagonal entry of the matrix waypoint_list_to_matrix
\* returns, the destination-to-end entries included, has the fuel the vessel
\* fuel model gives for the vessel speed and the entry's travel time.
C13_EveryEdgeHasModelFuel ==
    (pc = "matrix_done" /\ vessel.speed > 0 /\ ret.kind = "matrix")
        => \A i, j \in 0..Len(arg) :
              i # j => ret.value[i][j].fuel_burned
                          = calc_fuel_burned(vessel.speed, ret.value[i][j].time)

\* the waypoint and priority of every destination of Mission m, in order
Stops(m) == [k \in 1..Len(m.destinations) |->
                <<m.destinations[k].waypoint, m.destinations[k].priority>>]

\* C12: a second plan_mission call on the same planner and vessel returns a
\* Mission of the same destination sequence and the same total priority as
\* the first call.
C12_SecondCallSame ==
    (pc = "returned" /\ first.kind = "Mission")
        => /\ Stops(ret.value) = Stops(first.value)
           /\ ret.value.total_priority = first.value.total_priority

\* the complete paths that keep the first k elements of path: the prefix
\* followed by an ordering of the other elements
Completions(path, k) ==
    {SubSeq(path, 1, k) \o p : p \in Orderings(Range(SliceFrom(path, k)))}

\* C14: when promising returns False for a prefix, no complete path that
\* extends the prefix costs less than best_path_length; and whenever
\* promising computes its estimate (at least PruneMin nodes unassigned), the
\* estimate is at most the cost of every complete path extending the prefix.
C14_PrunedPrefixCannotImprove ==
    pc = "search" =>
        LET path == Deref(solver, solver.curr_path)
            k    == Top.permLength
        IN  /\ (Top.at = "return" /\ Top.pruned)
                  => \A c \in Completions(path, k) :
                        PathFuel(adj_mat, c, solver.num_coords) >= solver.best_path_length
            /\ (Top.at = "enter" /\ Len(path) - k >= PruneMin)
                  => \A c \in Completions(path, k) :
                        totalEst(adj_mat, solver.num_coords, path, k)
                            <= PathFuel(adj_mat, c, solver.num_coords)

\* C15: when a genPerms call returns, whether at a terminal, on the
\* promising test or at the end of its loop, curr_path holds the sequence it
\* held when the call was entered; it holds that sequence between two
\* iterations of the call's loop too, each swap being undone after its
\* recursive call.
C15_PathRestoredOnReturn ==
    /\ (pc = "search" /\ Top.at = "return")
          => Deref(solver, solver.curr_path) = Top.entry
    /\ (pc = "search" /\ Top.at = "loop")
          => Deref(solver, solver.curr_path) = Top.entry

\* a call that ran its whole loop, with swaps of distinct positions, returns
C15_Witness ==
    /\ pc = "search"
    /\ Top.at = "return"
    /\ ~Top.pruned
    /\ Top.permLength + 2 <= Len(Top.entry)
    /\ Len(stack) >= 2

\* C16: from the greedy construction to the end of the search, the candidate
\* path is a permutation of the destination indexes 0..n-1 that begins with
\* index 0; the end node index n is not in it.
C16_PathIsPermutationFromZero ==
    pc \in {"solver", "search", "solved"}
        => LET path == Deref(solver, solver.curr_path)
               n    == solver.num_coords
           IN  /\ Len(path) = n
               /\ Range(path) = 0..n - 1
               /\ path[1] = 0
               /\ n \notin Range(path)

\* the search stands at a complete path that is not the greedy one, with a
\* swap of every recursion level in force
C16_Witness ==
    /\ pc = "search"
    /\ Top.at = "enter"
    /\ Top.permLength = solver.num_coords
    /\ solver.num_coords >= PruneMin
    /\ \A k \in 2..solver.num_coords - 1 :
          Deref(solver, solver.curr_path)[k] # stack[1].entry[k]

====
